---- MODULE Spec2Model ----
(***************************************************************************)
(* Availability API of src/server/api.js: five route handlers over one     *)
(* remote table `availability` (columns date, status, message, time_slots).*)
(* Each handler issues one store call, awaits it, and answers.  The table  *)
(* is a set of rows; a request slot carries one request from its start to  *)
(* its response.                                                           *)
(***************************************************************************)
EXTENDS Integers, Sequences, FiniteSets, TLC

\* store: the rows of table `availability` (api.js:30-33, 71-75, 105-114, 128-131)
\* req:   per request slot, the handler's position and locals (api.js:28-166):
\*        pc idle -> sent (store call awaited) -> returned -> done (response sent)
\* last:  history, the last upsert or delete the store carried out
VARIABLES store, req, last

vars == <<store, req, last>>

(* ------------------------------ bounds --------------------------------- *)

\* calendar dates are day numbers 1..MaxDate (ISO strings order the same way)
MaxDate == 2
\* instants per day: tick 0 is 00:00:00.000 UTC, every other tick is later that day
TicksPerDay == 2
\* request slots, i.e. requests that can be in flight together
NumReq == 2

Dates == 1..MaxDate
ReqIds == 1..NumReq
Nows == [day : Dates, tick : 0..(TicksPerDay - 1)]

(* --------------------------- JSON values ------------------------------- *)

Undefined == [t |-> "undefined"]
Null == [t |-> "null"]
Str(s) == [t |-> "string", v |-> s]
Arr(a) == [t |-> "array", v |-> a]

Statuses == {"available", "unavailable"}
Messages == {Null, Str("closed")}
SlotLists == {Null, Arr(<<"9am">>)}

\* request bodies of the save route; message and timeSlots may be left out
Bodies ==
  [date : Dates, status : Statuses,
   message : Messages \cup {Undefined}, timeSlots : SlotLists \cup {Undefined}]

\* inputs of the concurrent specification: one date, one full and one partial body
ConcDates == {1}
ConcBodies ==
  {[date |-> 1, status |-> "unavailable", message |-> Str("closed"),
    timeSlots |-> Arr(<<"9am">>)],
   [date |-> 1, status |-> "available", message |-> Undefined,
    timeSlots |-> Undefined]}
ConcNows == {n \in Nows : n.day = 1 /\ n.tick = TicksPerDay - 1}

(* ------------------------------ store ---------------------------------- *)

\* what the store answers when .single() finds no row (or several)
NoRowsError ==
  [code |-> "PGRST116", message |-> "JSON object requested, multiple (or no) rows returned"]

\* failures of the store call itself
StoreErrors ==
  {[code |-> "08006", message |-> "connection failure"],
   [code |-> "42P01", message |-> "relation availability does not exist"]}

RowsFor(s, d) == {row \in s : row.date = d}

\* .order('date', { ascending: true })
RECURSIVE SortByDate(_)
SortByDate(rows) ==
  IF rows = {} THEN <<>>
  ELSE LET first == CHOOSE x \in rows : \A y \in rows : x.date <= y.date
       IN <<first>> \o SortByDate(rows \ {first})

\* .select('*').order('date')
SelectAll(s) == [data |-> SortByDate(s), error |-> Null]

\* .select('*').eq('date', d).single()
SelectSingle(s, d) ==
  LET m == RowsFor(s, d)
  IN IF Cardinality(m) = 1
       THEN [data |-> CHOOSE x \in m : TRUE, error |-> Null]
       ELSE [data |-> Null, error |-> NoRowsError]

\* the object handed to upsert: wire field timeSlots becomes column time_slots;
\* a field that is undefined is dropped when the object is serialised
Payload(body) ==
  [date |-> body.date, status |-> body.status, message |-> body.message,
   time_slots |-> body.timeSlots]

\* a column missing from the payload takes the column default on insert
InsertRow(p) ==
  [date |-> p.date, status |-> p.status,
   message |-> IF p.message = Undefined THEN Null ELSE p.message,
   time_slots |-> IF p.time_slots = Undefined THEN Null ELSE p.time_slots]

\* on conflict the store sets the columns the payload carries (merge-duplicates);
\* a column whose key was dropped keeps the value of the row that is there
UpdateRow(old, p) ==
  [date |-> p.date, status |-> p.status,
   message |-> IF p.message = Undefined THEN old.message ELSE p.message,
   time_slots |-> IF p.time_slots = Undefined THEN old.time_slots ELSE p.time_slots]

\* variant: delete-then-insert that loses the insert when a row was there
UpsertFlip(s, p) ==
  IF RowsFor(s, p.date) = {} THEN s \cup {InsertRow(p)} ELSE s \ RowsFor(s, p.date)

\* .upsert(payload, { onConflict: 'date' })
Upsert(s, p) ==
  LET old == RowsFor(s, p.date)
  IN IF old = {} THEN s \cup {InsertRow(p)}
     ELSE (s \ old) \cup {UpdateRow(o, p) : o \in old}

\* variant: the filter matches no row
DeleteNothing(s, d) == s \ RowsFor(s, 0)

\* variant: .lte in place of .eq
DeleteUpTo(s, d) == {row \in s : row.date > d}

\* .delete().eq('date', d)
DeleteEq(s, d) == s \ RowsFor(s, d)

(* ---------------------------- responses -------------------------------- *)

Fail500(msg) == [code |-> 500, body |-> [error |-> msg]]
Ok200(b) == [code |-> 200, body |-> b]

\* new Date('YYYY-MM-DD') is midnight UTC of that day; new Date() is the instant.
\* The forEach loop runs without yielding, so all its turns see one instant.
DateMs(d) == d * TicksPerDay
NowMs(now) == now.day * TicksPerDay + now.tick

\* variant: reads the wire name timeSlots off the stored row
DayEntryCamel(day) ==
  [status |-> day.status, message |-> day.message, timeSlots |-> Undefined]

DayEntry(day) ==
  [status |-> day.status, message |-> day.message, timeSlots |-> day.time_slots]

Qualifies(day, now) == day.status = "available" /\ DateMs(day.date) >= NowMs(now)

\* one turn of data.forEach on the accumulators days and nextAvailable
ForEachStep(acc, day, now) ==
  [days |-> [d \in DOMAIN acc.days \cup {day.date} |->
               IF d = day.date THEN DayEntry(day) ELSE acc.days[d]],
   nextAvailable |->
     IF acc.nextAvailable = Null /\ Qualifies(day, now)
       THEN [date |-> day.date, timeSlots |-> day.time_slots]
       ELSE acc.nextAvailable]

RECURSIVE ForEach(_, _, _, _)
ForEach(data, i, acc, now) ==
  IF i > Len(data) THEN acc
  ELSE ForEach(data, i + 1, ForEachStep(acc, data[i], now), now)

\* variant: the catch block passes the store's message on
ListResponseLeak(res, now) ==
  IF res.error # Null THEN Fail500(res.error.message)
  ELSE LET acc == ForEach(res.data, 1, [days |-> <<>>, nextAvailable |-> Null], now)
       IN Ok200([days |-> acc.days, nextAvailable |-> acc.nextAvailable,
                 lastUpdated |-> now])

ListResponse(res, now) ==
  IF res.error # Null THEN Fail500("Failed to fetch availability")
  ELSE LET acc == ForEach(res.data, 1, [days |-> <<>>, nextAvailable |-> Null], now)
       IN Ok200([days |-> acc.days, nextAvailable |-> acc.nextAvailable,
                 lastUpdated |-> now])

Falsy(v) == v \in {Null, Undefined}

\* variant: every store error is thrown, row-not-found included
ReadResponseStrict(date, res) ==
  IF res.error # Null THEN Fail500("Failed to fetch date")
  ELSE Ok200([date |-> res.data.date, status |-> res.data.status,
              message |-> res.data.message,
              timeSlots |-> IF Falsy(res.data.time_slots) THEN Arr(<<>>)
                            ELSE res.data.time_slots])

ReadResponse(date, res) ==
  IF res.error # Null /\ res.error.code # "PGRST116" THEN Fail500("Failed to fetch date")
  ELSE IF Falsy(res.data)
    THEN Ok200([date |-> date, status |-> "available", message |-> Null,
                timeSlots |-> Arr(<<>>)])
    ELSE Ok200([date |-> res.data.date, status |-> res.data.status,
                message |-> res.data.message,
                timeSlots |-> IF Falsy(res.data.time_slots) THEN Arr(<<>>)
                              ELSE res.data.time_slots])

SaveResponse(res) ==
  IF res.error # Null THEN Fail500("Failed to save availability")
  ELSE Ok200([success |-> TRUE, data |-> res.data])

DeleteResponse(res) ==
  IF res.error # Null THEN Fail500("Failed to delete availability")
  ELSE Ok200([success |-> TRUE])

StatusResponse(res) ==
  IF res.error # Null
    THEN [code |-> 500, body |-> [status |-> "disconnected", error |-> res.error.message]]
    ELSE Ok200([status |-> "connected"])

(* ------------------------------ state ---------------------------------- *)

Pending == [t |-> "pending"]
NoResponse == [t |-> "none"]

IdleReq ==
  [pc |-> "idle", kind |-> "none", date |-> 0, body |-> Null, result |-> Pending,
   response |-> NoResponse, ops |-> 0, resps |-> 0]

\* history: the last mutation the store carried out; hit = a row of that date was
\* there before it, again = it repeats the mutation carried out just before it
NoMutation == [kind |-> "none", date |-> 0, body |-> Null, hit |-> FALSE, again |-> FALSE]

Init ==
  /\ store = {}
  /\ req = [r \in ReqIds |-> IdleReq]
  /\ last = NoMutation

\* a request takes the lowest free slot
FreeSlot(r) == req[r].pc = "idle" /\ \A q \in ReqIds : q < r => req[q].pc # "idle"
AllIdle == \A q \in ReqIds : req[q].pc = "idle"

\* the handler runs up to its await: the store call is on its way
Begin(r, kind, date, body) ==
  [req EXCEPT ![r] = [IdleReq EXCEPT !.pc = "sent", !.kind = kind, !.date = date,
                                     !.body = body, !.ops = 1]]

ListStart(r) ==
  /\ FreeSlot(r)
  /\ req' = Begin(r, "list", 0, Null)
  /\ UNCHANGED <<store, last>>

ReadStart(r, D) ==
  /\ FreeSlot(r)
  /\ \E d \in D : req' = Begin(r, "read", d, Null)
  /\ UNCHANGED <<store, last>>

SaveStart(r, B) ==
  /\ FreeSlot(r)
  /\ \E b \in B : req' = Begin(r, "save", b.date, b)
  /\ UNCHANGED <<store, last>>

DeleteStart(r, D) ==
  /\ FreeSlot(r)
  /\ \E d \in D : req' = Begin(r, "delete", d, Null)
  /\ UNCHANGED <<store, last>>

StatusStart(r) ==
  /\ FreeSlot(r)
  /\ req' = Begin(r, "status", 0, Null)
  /\ UNCHANGED <<store, last>>

\* the store carries out the call of request r
StoreResult(s, q) ==
  CASE q.kind = "list" -> SelectAll(s)
    [] q.kind = "read" -> SelectSingle(s, q.date)
    [] q.kind = "status" -> [data |-> Null, error |-> Null]
    [] OTHER -> [data |-> Null, error |-> Null]

StoreAfter(s, q) ==
  CASE q.kind = "save" -> Upsert(s, Payload(q.body))
    [] q.kind = "delete" -> DeleteEq(s, q.date)
    [] OTHER -> s

StoreExec(r) ==
  /\ req[r].pc = "sent"
  /\ store' = StoreAfter(store, req[r])
  /\ req' = [req EXCEPT ![r].pc = "returned", ![r].result = StoreResult(store, req[r])]
  /\ last' = IF req[r].kind \in {"save", "delete"}
               THEN [kind |-> req[r].kind, date |-> req[r].date, body |-> req[r].body,
                     hit |-> RowsFor(store, req[r].date) # {},
                     again |-> /\ last.kind = req[r].kind
                               /\ last.date = req[r].date
                               /\ last.body = req[r].body]
               ELSE last

StoreFail(r) ==
  /\ req[r].pc = "sent"
  /\ \E e \in StoreErrors :
       req' = [req EXCEPT ![r].pc = "returned", ![r].result = [data |-> Null, error |-> e]]
  /\ UNCHANGED <<store, last>>

\* the handler resumes after its await and answers
Resumes(r, kind) == req[r].pc = "returned" /\ req[r].kind = kind

Answer(r, response) ==
  [req EXCEPT ![r].pc = "done", ![r].response = response, ![r].resps = req[r].resps + 1]

ListResume(r, N) ==
  /\ Resumes(r, "list")
  /\ \E now \in N : req' = Answer(r, ListResponse(req[r].result, now))
  /\ UNCHANGED <<store, last>>

ReadResume(r) ==
  /\ Resumes(r, "read")
  /\ req' = Answer(r, ReadResponse(req[r].date, req[r].result))
  /\ UNCHANGED <<store, last>>

SaveResume(r) ==
  /\ Resumes(r, "save")
  /\ req' = Answer(r, SaveResponse(req[r].result))
  /\ UNCHANGED <<store, last>>

DeleteResume(r) ==
  /\ Resumes(r, "delete")
  /\ req' = Answer(r, DeleteResponse(req[r].result))
  /\ UNCHANGED <<store, last>>

\* variant: a failed probe is tried once more before answering
StatusResumeRetry(r) ==
  /\ Resumes(r, "status")
  /\ req' = IF req[r].result.error # Null /\ req[r].ops < 2
              THEN [req EXCEPT ![r].pc = "sent", ![r].result = Pending,
                               ![r].ops = req[r].ops + 1]
              ELSE Answer(r, StatusResponse(req[r].result))
  /\ UNCHANGED <<store, last>>

StatusResume(r) ==
  /\ Resumes(r, "status")
  /\ req' = Answer(r, StatusResponse(req[r].result))
  /\ UNCHANGED <<store, last>>

\* the exchange is over; the slot serves the next request
Finish(r) ==
  /\ req[r].pc = "done"
  /\ req' = [req EXCEPT ![r] = IdleReq]
  /\ UNCHANGED <<store, last>>

\* concurrent requests over the small inputs
Next ==
  \E r \in ReqIds :
    \/ ListStart(r)
    \/ ReadStart(r, ConcDates)
    \/ SaveStart(r, ConcBodies)
    \/ DeleteStart(r, ConcDates)
    \/ StatusStart(r)
    \/ StoreExec(r)
    \/ StoreFail(r)
    \/ ListResume(r, ConcNows)
    \/ ReadResume(r)
    \/ SaveResume(r)
    \/ DeleteResume(r)
    \/ StatusResume(r)
    \/ Finish(r)

Spec == Init /\ [][Next]_vars

\* one request at a time over all inputs
NextSeq ==
  \E r \in ReqIds :
    \/ AllIdle /\ ListStart(r)
    \/ AllIdle /\ ReadStart(r, Dates)
    \/ AllIdle /\ SaveStart(r, Bodies)
    \/ AllIdle /\ DeleteStart(r, Dates)
    \/ AllIdle /\ StatusStart(r)
    \/ StoreExec(r)
    \/ StoreFail(r)
    \/ ListResume(r, Nows)
    \/ ReadResume(r)
    \/ SaveResume(r)
    \/ DeleteResume(r)
    \/ StatusResume(r)
    \/ Finish(r)

SpecSeq == Init /\ [][NextSeq]_vars

(* ------------------------------ claims --------------------------------- *)

Done(r, kind) == req[r].pc = "done" /\ req[r].kind = kind
\* the store call failed with an error other than "row not found"
StoreFailure(r) == req[r].result.error \in StoreErrors
Succeeded(r) == req[r].result.error = Null
\* the step in which the store carries out the call of request r without failing
Executes(r, kind) ==
  /\ req[r].pc = "sent" /\ req[r].kind = kind
  /\ req'[r].pc = "returned" /\ req'[r].result.error \notin StoreErrors

DefaultRecord(d) ==
  [date |-> d, status |-> "available", message |-> Null, timeSlots |-> Arr(<<>>)]

\* C1: a successful list answers nextAvailable = {date, timeSlots} of the earliest
\* row that is "available" and dated on or after the current date (today's row at
\* any time of day), and null exactly when no row qualifies.
C1_NextAvailableFromToday ==
  \A r \in ReqIds :
    Done(r, "list") /\ Succeeded(r) =>
      LET today == req[r].response.body.lastUpdated.day
          cand == {row \in store : row.status = "available" /\ row.date >= today}
          got == req[r].response.body.nextAvailable
      IN IF cand = {} THEN got = Null
         ELSE \E row \in cand :
                /\ \A other \in cand : row.date <= other.date
                /\ got = [date |-> row.date, timeSlots |-> row.time_slots]

GenericMessages ==
  {"Failed to fetch availability", "Failed to fetch date",
   "Failed to save availability", "Failed to delete availability"}

LeaksDetail(r) ==
  \E f \in DOMAIN req[r].response.body :
    req[r].response.body[f] \in {req[r].result.error.message, req[r].result.error.code}

\* C2 as stated: on a StoreFailure every operation answers 500 with a body that is
\* only a fixed generic message, and never carries the store's own error message.
C2_NoDetailInAnyBody ==
  \A r \in ReqIds :
    req[r].pc = "done" /\ StoreFailure(r) =>
      /\ req[r].response.code = 500
      /\ DOMAIN req[r].response.body = {"error"}
      /\ req[r].response.body.error \in GenericMessages
      /\ ~LeaksDetail(r)

\* C2 amended: on a StoreFailure list, single-date read, save and delete answer 500
\* with only a fixed generic message and no store detail; the status probe answers
\* 500 with status "disconnected" and the store's own error message.
C2_GenericExceptStatusProbe ==
  \A r \in ReqIds :
    req[r].pc = "done" /\ StoreFailure(r) =>
      /\ req[r].response.code = 500
      /\ IF req[r].kind = "status"
           THEN req[r].response.body =
                  [status |-> "disconnected", error |-> req[r].result.error.message]
           ELSE /\ DOMAIN req[r].response.body = {"error"}
                /\ req[r].response.body.error \in GenericMessages
                /\ ~LeaksDetail(r)

C2_Witness ==
  \E r, q \in ReqIds :
    /\ Done(r, "status") /\ StoreFailure(r) /\ req[r].response.code = 500
    /\ Done(q, "list") /\ StoreFailure(q) /\ req[q].response.code = 500

\* C3: a single-date read of a date with no stored row answers 200 with the default
\* record (row-not-found is never an error); any other store error answers 500.
C3_ReadDefaultsWhenNoRow ==
  \A r \in ReqIds :
    Done(r, "read") =>
      /\ (RowsFor(store, req[r].date) = {} /\ ~StoreFailure(r)) =>
           req[r].response = Ok200(DefaultRecord(req[r].date))
      /\ StoreFailure(r) => req[r].response.code = 500

C3_Witness ==
  \E r \in ReqIds :
    /\ Done(r, "read") /\ RowsFor(store, req[r].date) = {} /\ store # {}
    /\ req[r].result.error = NoRowsError
    /\ req[r].response = Ok200(DefaultRecord(req[r].date))

\* C4: once a delete of d has succeeded and no save has followed, a single-date
\* read of d whose store call does not fail answers the default record, and d is
\* no key of the days mapping of a successful list.
C4_DefaultAfterDelete ==
  last.kind = "delete" =>
    \A r \in ReqIds :
      /\ (Done(r, "read") /\ req[r].date = last.date /\ ~StoreFailure(r)) =>
           req[r].response = Ok200(DefaultRecord(last.date))
      /\ (Done(r, "list") /\ Succeeded(r)) =>
           last.date \notin DOMAIN req[r].response.body.days

C4_Witness ==
  /\ last.kind = "delete" /\ last.hit /\ store # {}
  /\ \E r \in ReqIds :
       /\ Done(r, "read") /\ req[r].date = last.date
       /\ req[r].response = Ok200(DefaultRecord(last.date))

\* C5: when the store carries out a save whose body is the body of the save it
\* carried out just before, the store stays exactly as it was.
C5_SaveIdempotent ==
  [][\A r \in ReqIds :
       (Executes(r, "save") /\ last.kind = "save" /\ last.body = req[r].body)
         => store' = store]_vars

C5_Witness ==
  /\ last.kind = "save" /\ last.again
  /\ \E r \in ReqIds : Done(r, "save") /\ req[r].body = last.body /\ Succeeded(r)

WireOrNull(v) == IF v = Undefined THEN Null ELSE v

\* C6: after a successful save the row of its date holds exactly the saved status,
\* message and time_slots, nothing of the previous row, also when message or
\* timeSlots is left out of the body.
C6_SaveOverwritesAllFields ==
  last.kind = "save" =>
    RowsFor(store, last.date) =
      {[date |-> last.date, status |-> last.body.status,
        message |-> WireOrNull(last.body.message),
        time_slots |-> WireOrNull(last.body.timeSlots)]}

\* C7: a delete whose store call does not fail answers {success: true}, also when
\* no row of the date is stored; it leaves the rows of every other date alone, and
\* a delete of a date without a row (so also a repeated delete) changes nothing.
C7_DeleteAnswer ==
  \A r \in ReqIds :
    (Done(r, "delete") /\ ~StoreFailure(r)) => req[r].response = Ok200([success |-> TRUE])

C7_DeleteStep ==
  \A r \in ReqIds :
    Executes(r, "delete") =>
      /\ {row \in store' : row.date # req[r].date} = {row \in store : row.date # req[r].date}
      /\ RowsFor(store, req[r].date) = {} => store' = store
      /\ (last.kind = "delete" /\ last.date = req[r].date) => store' = store

\* C7: the answer of a delete (in every state) and its effect on the table (in
\* every step), as stated above.
C7_DeleteAbsentIsSuccess == [] C7_DeleteAnswer /\ [][C7_DeleteStep]_vars

C7_Witness ==
  /\ last.kind = "delete" /\ ~last.hit /\ last.again /\ store # {}
  /\ \E r \in ReqIds :
       Done(r, "delete") /\ req[r].date = last.date
         /\ req[r].response = Ok200([success |-> TRUE])

\* C8: the days mapping of a successful list has one key per stored row and no
\* other key, and days[row.date] = {status, message, timeSlots: row.time_slots}.
C8_DaysMirrorsRows ==
  \A r \in ReqIds :
    Done(r, "list") /\ Succeeded(r) =>
      LET days == req[r].response.body.days
      IN /\ DOMAIN days = {row.date : row \in store}
         /\ Cardinality(DOMAIN days) = Cardinality(store)
         /\ \A row \in store :
              days[row.date] = [status |-> row.status, message |-> row.message,
                                timeSlots |-> row.time_slots]

C8_Witness ==
  \E r \in ReqIds :
    /\ Done(r, "list") /\ Succeeded(r) /\ Cardinality(store) >= 2
    /\ \E row \in store : row.time_slots # Null /\ row.message # Null

\* C9: under concurrent saves and deletes the store holds at most one row per date,
\* and each row is the whole payload of one save request, never a mixture.
C9_RowIsOnePayload ==
  /\ \A x, y \in store : x.date = y.date => x = y
  /\ \A row \in store :
       \E b \in ConcBodies :
         row = [date |-> b.date, status |-> b.status, message |-> WireOrNull(b.message),
                time_slots |-> WireOrNull(b.timeSlots)]

\* C10: every request issues exactly one store call and sends exactly one response,
\* after the call has returned and without retrying; list, single-date read and
\* status probe (failed or not) never change the store.
C10_State ==
  \A r \in ReqIds :
    /\ req[r].pc # "idle" => req[r].ops = 1
    /\ req[r].resps = (IF req[r].pc = "done" THEN 1 ELSE 0)
    /\ req[r].resps > 0 => req[r].result # Pending

C10_Step ==
  /\ store' # store => \E r \in ReqIds : Executes(r, "save") \/ Executes(r, "delete")
  /\ \A r \in ReqIds :
       req[r].pc = "returned" =>
         req'[r].pc \in {"returned", "done"} /\ req'[r].ops = req[r].ops

\* C10: the counts of calls and responses (in every state) and what a step may
\* change, as stated above.
C10_OneCallOneResponse == [] C10_State /\ [][C10_Step]_vars

C10_Witness ==
  \E r, q \in ReqIds :
    /\ Done(r, "status") /\ StoreFailure(r) /\ req[r].resps = 1 /\ req[r].ops = 1
    /\ req[q].kind = "save" /\ req[q].pc = "returned" /\ store # {}

====
